---------------------------- MODULE Spec2Model ----------------------------
(***************************************************************************)
(* Model of the sampling core of the MYULA and SK-ROCK notebooks:          *)
(*   - the posterior gradient oracle grad_f_g = gradf + gradg,             *)
(*   - the two kernels ULA_kernel and SKROCK_kernel,                       *)
(*   - the two sampling loops (burn-in, accumulators, thinned trace).      *)
(*                                                                         *)
(* Numbers are exact rationals <<n, d>> (d > 0, lowest terms); an image is *)
(* a pair of rationals.  cosh(s*arccosh(x)) is the Chebyshev               *)
(* polynomial T_s(x) for x >= 1, and s*sinh(s*arccosh(x))/sqrt(x^2-1) is   *)
(* s*U_{s-1}(x); both are computed by their three-term recurrences.        *)
(***************************************************************************)
EXTENDS Integers, Sequences, FiniteSets, TLC

(***************************************************************************)
(* Exact rational arithmetic                                               *)
(***************************************************************************)
\* The arithmetic is written as functions: a function application evaluates
\* its arguments where it is applied, which keeps TLC's evaluation shallow.
Abs(n) == IF n < 0 THEN -n ELSE n

\* Euclid's algorithm on naturals
gcd[a \in Nat, b \in Nat] == IF b = 0 THEN a ELSE gcd[b, a % b]
GCD(a, b) == gcd[a, b]

\* the rational n/d in lowest terms with a positive denominator
rat[n \in Int, d \in Int] ==
    LET g == gcd[Abs(n), Abs(d)]
        sg == IF d < 0 THEN -1 ELSE 1
    IN  <<sg * (n \div g), sg * (d \div g)>>
Rat(n, d) == rat[n, d]

Rationals == Int \X Int

RInt(n) == <<n, 1>>
Zero == RInt(0)
One == RInt(1)
Two == RInt(2)

RNeg(p) == <<-p[1], p[2]>>

radd[p \in Rationals, q \in Rationals] ==
    LET g == gcd[p[2], q[2]]
    IN  rat[p[1] * (q[2] \div g) + q[1] * (p[2] \div g), (p[2] \div g) * q[2]]
RAdd(p, q) == radd[p, q]

RSub(p, q) == radd[p, RNeg(q)]

\* cross-reduce before multiplying, so that intermediate products stay small
rmul[p \in Rationals, q \in Rationals] ==
    LET g1 == gcd[Abs(p[1]), q[2]]
        g2 == gcd[Abs(q[1]), p[2]]
    IN  rat[(p[1] \div g1) * (q[1] \div g2), (p[2] \div g2) * (q[2] \div g1)]
RMul(p, q) == rmul[p, q]

\* q # 0
RDiv(p, q) == rmul[p, rat[q[2], q[1]]]

RLt(p, q) == RSub(p, q)[1] < 0
RLe(p, q) == RSub(p, q)[1] <= 0

(***************************************************************************)
(* Images: two pixels, a pair of rationals                                 *)
(***************************************************************************)
VAdd(u, v) == <<RAdd(u[1], v[1]), RAdd(u[2], v[2])>>
VSub(u, v) == <<RSub(u[1], v[1]), RSub(u[2], v[2])>>
VScale(c, v) == <<RMul(c, v[1]), RMul(c, v[2])>>
VNeg(v) == <<RNeg(v[1]), RNeg(v[2])>>
VInt(a, b) == <<RInt(a), RInt(b)>>

\* math.sqrt on the exact squares of SqrtRange (the inputs are chosen so that
\* every non-negative argument is one); a negative argument is a domain error
SqrtRange == {Rat(a, b) : a \in 0..4, b \in 1..4}
IsSquare(q) == \E r \in SqrtRange : RMul(r, r) = q
sqrt(q) == CHOOSE r \in SqrtRange : RMul(r, r) = q

(***************************************************************************)
(* The problem: forward operator, observation, noise scale, prior weight.  *)
(* A problem is a record [op, y, sigma, theta].                            *)
(***************************************************************************)
\* the forward operators of the model, as matrices (rows), with ||A A^T||_2
Operators ==
    { [M |-> <<VInt(1, 0), VInt(0, 1)>>, AAT_norm |-> RInt(1)],
      [M |-> <<VInt(0, 2), VInt(1, 0)>>, AAT_norm |-> RInt(4)] }

MatRow(r, x) == RAdd(RMul(r[1], x[1]), RMul(r[2], x[2]))
MatVec(M, x) == <<MatRow(M[1], x), MatRow(M[2], x)>>
Transpose(M) == <<(<<M[1][1], M[2][1]>>), (<<M[1][2], M[2][2]>>)>>

A(P, x) == MatVec(P.op.M, x)
AT(P, x) == MatVec(Transpose(P.op.M), x)

\* gradf = lambda x: AT(A(x)-y)/sigma**2
gradf(P, x) == VScale(RDiv(One, RMul(P.sigma, P.sigma)), AT(P, VSub(A(P, x), P.y)))

\* L_y = AAT_norm/(sigma**2)
L_y(P) == RDiv(P.op.AAT_norm, RMul(P.sigma, P.sigma))

\* lambd = lambda_prox*lambd_frac, lambda_prox = 1/L_y, lambd_frac = 0.99
lambd_frac == Rat(99, 100)
lambd(P) == RMul(RDiv(One, L_y(P)), lambd_frac)

\* the proximal operator of tau*TV on a two-pixel image, TV(x) = |x1 - x2|:
\* the pixels move towards each other by tau and meet at their mean
chambolle_prox_TV(x, tau) ==
    LET d == RSub(x[1], x[2])
        m == RDiv(RAdd(x[1], x[2]), Two)
    IN  IF RLe(d, RMul(Two, tau)) /\ RLe(RNeg(d), RMul(Two, tau))
        THEN <<m, m>>
        ELSE IF RLt(Zero, d)
             THEN <<RSub(x[1], tau), RAdd(x[2], tau)>>
             ELSE <<RAdd(x[1], tau), RSub(x[2], tau)>>

\* proxg = lambda x: chambolle_prox_TV(x,{'lambda' : theta*lambd, 'MaxIter' : 25})
proxg(P, x) == chambolle_prox_TV(x, RMul(P.theta, lambd(P)))

\* a faulty gradg: the quotient multiplied by theta once more
gradg_theta(P, x) == VScale(RDiv(P.theta, lambd(P)), VSub(x, proxg(P, x)))

\* gradg = lambda x: (x -proxg(x))/lambd
gradg(P, x) == VScale(RDiv(One, lambd(P)), VSub(x, proxg(P, x)))

\* grad_f_g = lambda x: gradf(x) + gradg(x)
grad_f_g(P, x) == VAdd(gradf(P, x), gradg(P, x))

\* L_g = 1/lambd ; L = L_y + L_g
L_g(P) == RDiv(One, lambd(P))
\* a faulty L: the likelihood's constant alone
L_likelihood(P) == L_y(P)
L(P) == RAdd(L_y(P), L_g(P))

(***************************************************************************)
(* SK-ROCK coefficients                                                    *)
(***************************************************************************)
\* T_s = lambda s,x: np.cosh(s*np.arccosh(x)), the Chebyshev polynomial T_s
RECURSIVE T_s(_, _)
T_s(s, x) ==
    IF s = 0 THEN One
    ELSE IF s = 1 THEN x
    ELSE RSub(RMul(RMul(Two, x), T_s(s - 1, x)), T_s(s - 2, x))

\* the Chebyshev polynomial of the second kind U_s:
\* sinh(s*arccosh(x))/sqrt(x**2-1) is U_{s-1}(x) for s >= 1
RECURSIVE U_s(_, _)
U_s(s, x) ==
    IF s = 0 THEN One
    ELSE IF s = 1 THEN RMul(Two, x)
    ELSE RSub(RMul(RMul(Two, x), U_s(s - 1, x)), U_s(s - 2, x))

\* T_prime_s = lambda s,x: s*np.sinh(s*np.arccosh(x))/np.sqrt(x**2 -1)
T_prime_s(s, x) == RMul(RInt(s), U_s(s - 1, x))

denNStag(eta) == RSub(Two, RMul(Rat(4, 3), eta))
rhoSKROCK(nStages, eta) ==
    RSub(RMul(RMul(Rat(2 * nStages - 1, 2), Rat(2 * nStages - 1, 2)), denNStag(eta)),
         Rat(3, 2))
dtSKROCK(dt_perc, nStages, eta, Lipschitz_U) ==
    RDiv(RMul(dt_perc, rhoSKROCK(nStages, eta)), Lipschitz_U)
w0(nStages, eta) == RAdd(One, RDiv(eta, RInt(nStages * nStages)))
w1(nStages, eta) ==
    RDiv(T_s(nStages, w0(nStages, eta)), T_prime_s(nStages, w0(nStages, eta)))
mu1(nStages, eta) == RDiv(w1(nStages, eta), w0(nStages, eta))
nu1(nStages, eta) == RDiv(RMul(RInt(nStages), w1(nStages, eta)), Two)
kappa1(nStages, eta) == RMul(RInt(nStages), RDiv(w1(nStages, eta), w0(nStages, eta)))
mu(js, nStages, eta) ==
    RDiv(RMul(RMul(Two, w1(nStages, eta)), T_s(js - 1, w0(nStages, eta))),
         T_s(js, w0(nStages, eta)))
nu(js, nStages, eta) ==
    RDiv(RMul(RMul(Two, w0(nStages, eta)), T_s(js - 1, w0(nStages, eta))),
         T_s(js, w0(nStages, eta)))
\* a faulty kappa: 1 + nu
kappa_sum(js, nStages, eta) == RAdd(One, nu(js, nStages, eta))
kappa(js, nStages, eta) == RSub(One, nu(js, nStages, eta))
\* the coefficient of the notebook's text: k_j = -T_{j-2}(w0)/T_j(w0)
k_j(js, nStages, eta) ==
    RNeg(RDiv(T_s(js - 2, w0(nStages, eta)), T_s(js, w0(nStages, eta))))

(***************************************************************************)
(* The kernels, one noise draw Z given                                      *)
(***************************************************************************)
\* a faulty ULA_kernel: half the drift
ULA_kernel_halfdrift(P, X, delta, Z) ==
    VAdd(VSub(X, VScale(RDiv(delta, Two), grad_f_g(P, X))),
         VScale(sqrt(RMul(Two, delta)), Z))

\* a faulty ULA_kernel: the drift enters with the opposite sign
ULA_kernel_ascent(P, X, delta, Z) ==
    VAdd(VAdd(X, VScale(delta, grad_f_g(P, X))), VScale(sqrt(RMul(Two, delta)), Z))

\* ULA_kernel: X - delta * grad_f_g(X) + math.sqrt(2*delta) * torch.randn_like(X)
ULA_kernel(P, X, delta, Z) ==
    VAdd(VSub(X, VScale(delta, grad_f_g(P, X))), VScale(sqrt(RMul(Two, delta)), Z))

\* Q=math.sqrt(2*dtSKROCK)*torch.randn_like(X)
Diffusion(dt, Z) == VScale(sqrt(RMul(Two, dt)), Z)

\* the argument of gradU in the first internal iteration: X + nu1*Q
Stage1Arg(X, Q, nStages, eta) == VAdd(X, VScale(nu1(nStages, eta), Q))

\* Xts= X.clone() - mu1*dtSKROCK*gradU(X + nu1*Q) + kappa1*Q
Stage1(X, Q, G, dt, nStages, eta) ==
    VAdd(VSub(X, VScale(RMul(mu1(nStages, eta), dt), G)),
         VScale(kappa1(nStages, eta), Q))

\* a faulty stage: the gradient term added instead of subtracted
StageJ_ascent(Xts, XtsMinus2, G, dt, js, nStages, eta) ==
    VAdd(VAdd(VScale(RMul(mu(js, nStages, eta), dt), G),
              VScale(nu(js, nStages, eta), Xts)),
         VScale(kappa(js, nStages, eta), XtsMinus2))

\* Xts= -mu*dtSKROCK*gradU(Xts) + nu*Xts + kappa*XtsMinus2
StageJ(Xts, XtsMinus2, G, dt, js, nStages, eta) ==
    VAdd(VAdd(VScale(RNeg(RMul(mu(js, nStages, eta), dt)), G),
              VScale(nu(js, nStages, eta), Xts)),
         VScale(kappa(js, nStages, eta), XtsMinus2))

(***************************************************************************)
(* State.  Problem and kernel call (specification SpecKernel):             *)
(*   P            the globals the closures capture: op, y, sigma, theta    *)
(*   kernel       which kernel is called, "ULA" or "SKROCK"                *)
(*   X            the kernel's argument X                                  *)
(*   delta        ULA_kernel's argument delta                              *)
(*   args         SKROCK_kernel's arguments Lipschitz_U, nStages, eta,     *)
(*                dt_perc                                                  *)
(*   gradU        SKROCK_kernel's argument gradU: "grad_f_g", the          *)
(*                notebook's oracle, or "any", an arbitrary function whose *)
(*                values are fixed as it is called (graph)                 *)
(*   kpc          where the call is                                        *)
(*   dt, Q, Xts, XtsMinus2, js   SKROCK_kernel's locals                    *)
(*   gradCalls    the calls of the gradient oracle: argument and value     *)
(*   randnCalls   the draws torch.randn_like(X) has returned               *)
(*   ret          the returned tensor                                      *)
(***************************************************************************)
VARIABLES P, kernel, X, delta, args, gradU, graph, kpc, dt, Q, Xts, XtsMinus2, js,
          gradCalls, randnCalls, ret

kvars == <<P, kernel, X, delta, args, gradU, graph, kpc, dt, Q, Xts, XtsMinus2, js,
           gradCalls, randnCalls, ret>>

(***************************************************************************)
(* State.  Sampling run (specification Spec): the notebooks' globals       *)
(*   maxit, burnin, n_samples, thinning_step   the run configuration       *)
(*   i_x          the loop index                                           *)
(*   count        the thinning counter                                     *)
(*   MC_X         the thinned trace                                        *)
(*   post_meanvar, absfouriercoeff, var_C   the streaming accumulators     *)
(*   nrmse_values, psnr_values, ssim_values, log_pi_trace   the series     *)
(*   pc           "loop", "done" or "raised"; "kernel" in SpecKernel       *)
(* In a run the chain state X is the term of its history: the sequence of  *)
(* the transitions that built it from y.clone(), each with the step size   *)
(* and the noise draw it used.  An accumulator is the sequence of the      *)
(* samples it was given, a series entry the value's arguments.             *)
(***************************************************************************)
VARIABLES maxit, burnin, n_samples, thinning_step, i_x, count, MC_X,
          post_meanvar, absfouriercoeff, var_C,
          nrmse_values, psnr_values, ssim_values, log_pi_trace, pc

dvars == <<maxit, burnin, n_samples, thinning_step, i_x, count, MC_X,
           post_meanvar, absfouriercoeff, var_C,
           nrmse_values, psnr_values, ssim_values, log_pi_trace, pc>>

(***************************************************************************)
(* State.  One streaming accumulator on its own (specification             *)
(* SpecWelford):                                                           *)
(*   w            the accumulator object: count n, running mean, M2        *)
(*   fed          the samples it was given so far, in order                *)
(***************************************************************************)
VARIABLES w, fed

avars == <<w, fed>>

vars == <<kvars, dvars, avars>>

\* a name not assigned yet (the empty tuple: comparable with a tensor)
None == <<>>

\* bounded inputs
Images == {VInt(2, -1), VInt(0, 1), VInt(1, 1)}
Noise == {VInt(1, -1), VInt(0, 2), VInt(0, 0)}
Sigmas == {One}
Thetas == {Rat(1, 2), Two}
Problems ==
    {[op |-> o, y |-> yy, sigma |-> sg, theta |-> th] :
        o \in Operators, yy \in {VInt(1, 0)}, sg \in Sigmas, th \in Thetas}
Deltas == {Rat(1, 2), Rat(1, 8)}
Etas == {Rat(1, 2)}
Percs == {Rat(1, 2)}
NoiseScales == {One, Rat(1, 2)}
\* the values an arbitrary oracle returns
GradValues == {VInt(1, -1), VInt(-2, 0)}
\* stage counts: exact arithmetic on TLC's integers reaches three stages with
\* an arbitrary oracle and one with grad_f_g
StageCounts == {1, 2, 3}
StageCountsExact == {1}

\* the Lipschitz constant at which |2*dtSKROCK| is the square of r
LipschitzFor(n, e, a, r) ==
    LET d == RMul(RMul(Two, a), rhoSKROCK(n, e))
    IN  RDiv(IF RLt(d, Zero) THEN RNeg(d) ELSE d, RMul(r, r))

SKROCKArgs ==
    {[Lipschitz_U |-> LipschitzFor(n, e, a, r), nStages |-> n, eta |-> e, dt_perc |-> a] :
        n \in StageCounts, e \in Etas, a \in Percs, r \in NoiseScales}

\* arguments outside the admissible range: no stage at all, and eta = 1
OutsidePairs == {<<0, Rat(1, 2)>>, <<3, One>>}
SKROCKArgsOutside ==
    {[Lipschitz_U |-> LipschitzFor(q[1], q[2], a, r), nStages |-> q[1], eta |-> q[2],
      dt_perc |-> a] : q \in OutsidePairs, a \in Percs, r \in NoiseScales}

Admissible(a) == a.nStages >= 1 /\ RLt(Zero, a.eta) /\ RLt(a.eta, One)

NoArgs == [Lipschitz_U |-> Zero, nStages |-> 0, eta |-> Zero, dt_perc |-> Zero]

KernelLocalsInit ==
    /\ dt = None /\ Q = None /\ Xts = None /\ XtsMinus2 = None /\ js = 0
    /\ graph = {} /\ gradCalls = <<>> /\ randnCalls = <<>> /\ ret = None

\* a name not bound yet
Unset == "unset"
\* no accumulator built yet: an accumulator holds at least its first sample
NoAccumulator == <<>>

\* no run: the kernel is called on its own
RunIdle ==
    /\ maxit = 0 /\ burnin = 0 /\ n_samples = 0 /\ thinning_step = 0 /\ i_x = 0
    /\ count = Unset /\ MC_X = <<>>
    /\ post_meanvar = NoAccumulator /\ absfouriercoeff = NoAccumulator
    /\ var_C = NoAccumulator
    /\ nrmse_values = <<>> /\ psnr_values = <<>> /\ ssim_values = <<>>
    /\ log_pi_trace = <<>> /\ pc = "kernel"

\* no accumulator object on its own
NoWelford == [n |-> 0, mean |-> Zero, M2 |-> Zero]
WelfordIdle == w = NoWelford /\ fed = <<>>

InitKernel ==
    /\ P \in Problems
    /\ X \in Images
    /\ \/ /\ kernel = "ULA" /\ delta \in Deltas /\ args = NoArgs
          /\ gradU = "grad_f_g" /\ kpc = "ula"
       \/ /\ kernel = "SKROCK" /\ delta = None
          /\ args \in SKROCKArgs \cup SKROCKArgsOutside
          /\ gradU \in {"grad_f_g", "any"}
          /\ gradU = "grad_f_g" => args.nStages \in StageCountsExact
          /\ kpc = "params"
    /\ KernelLocalsInit
    /\ RunIdle
    /\ WelfordIdle

\* the values a call gradU(x) can return
GradResults(x) ==
    IF gradU = "grad_f_g" THEN {grad_f_g(P, x)}
    ELSE IF \E c \in graph : c[1] = x THEN {c[2] : c \in {c \in graph : c[1] = x}}
    ELSE GradValues

\* a faulty ULA_kernel: the update written into its argument (X.sub_(...))
ULA_call_inplace ==
    /\ kpc = "ula"
    /\ gradCalls' = Append(gradCalls, [arg |-> X, val |-> grad_f_g(P, X)])
    /\ \E Z \in Noise :
            /\ randnCalls' = Append(randnCalls, Z)
            /\ X' = ULA_kernel(P, X, delta, Z)
            /\ ret' = X'
            /\ kpc' = "returned"
    /\ UNCHANGED <<P, kernel, delta, args, gradU, graph, dt, Q, Xts, XtsMinus2, js>>
    /\ UNCHANGED <<dvars, avars>>

\* def ULA_kernel(X, delta): one expression, evaluated left to right
ULA_call ==
    /\ kpc = "ula"
    /\ gradCalls' = Append(gradCalls, [arg |-> X, val |-> grad_f_g(P, X)])
    /\ IF RLt(RMul(Two, delta), Zero)
       THEN /\ kpc' = "raised"
            /\ UNCHANGED <<randnCalls, ret>>
       ELSE \E Z \in Noise :
            /\ randnCalls' = Append(randnCalls, Z)
            /\ ret' = ULA_kernel(P, X, delta, Z)
            /\ kpc' = "returned"
    /\ UNCHANGED <<P, kernel, X, delta, args, gradU, graph, dt, Q, Xts, XtsMinus2, js>>
    /\ UNCHANGED <<dvars, avars>>

\* SKROCK_kernel up to the diffusion term: the step size, the coefficients, Q
SKROCK_params ==
    /\ kpc = "params"
    /\ dt' = dtSKROCK(args.dt_perc, args.nStages, args.eta, args.Lipschitz_U)
    /\ IF args.nStages = 0
       THEN \* eta/(nStages**2) raises ZeroDivisionError
            /\ kpc' = "raised"
            /\ UNCHANGED <<Q, randnCalls>>
       ELSE IF RLt(RMul(Two, dt'), Zero)
       THEN \* math.sqrt raises ValueError: math domain error
            /\ kpc' = "raised"
            /\ UNCHANGED <<Q, randnCalls>>
       ELSE \E Z \in Noise :
            /\ randnCalls' = Append(randnCalls, Z)
            /\ Q' = Diffusion(dt', Z)
            /\ kpc' = "stage1"
    /\ UNCHANGED <<P, kernel, X, delta, args, gradU, graph, Xts, XtsMinus2, js,
                   gradCalls, ret>>
    /\ UNCHANGED <<dvars, avars>>

\* SKROCK first internal iteration
SKROCK_stage1 ==
    /\ kpc = "stage1"
    /\ XtsMinus2' = X
    /\ \E G \in GradResults(Stage1Arg(X, Q, args.nStages, args.eta)) :
        /\ gradCalls' = Append(gradCalls,
               [arg |-> Stage1Arg(X, Q, args.nStages, args.eta), val |-> G])
        /\ graph' = graph \cup {<<Stage1Arg(X, Q, args.nStages, args.eta), G>>}
        /\ Xts' = Stage1(X, Q, G, dt, args.nStages, args.eta)
    /\ js' = 2
    /\ kpc' = "loop"
    /\ UNCHANGED <<P, kernel, X, delta, args, gradU, dt, Q, randnCalls, ret>>
    /\ UNCHANGED <<dvars, avars>>

\* for js in range(2,nStages+1): one internal iteration
SKROCK_stage ==
    /\ kpc = "loop"
    /\ js <= args.nStages
    /\ \E G \in GradResults(Xts) :
        /\ gradCalls' = Append(gradCalls, [arg |-> Xts, val |-> G])
        /\ graph' = graph \cup {<<Xts, G>>}
        /\ Xts' = StageJ(Xts, XtsMinus2, G, dt, js, args.nStages, args.eta)
    /\ XtsMinus2' = Xts
    /\ js' = js + 1
    /\ UNCHANGED <<P, kernel, X, delta, args, gradU, kpc, dt, Q, randnCalls, ret>>
    /\ UNCHANGED <<dvars, avars>>

\* return Xts
SKROCK_return ==
    /\ kpc = "loop"
    /\ js > args.nStages
    /\ ret' = Xts
    /\ kpc' = "returned"
    /\ UNCHANGED <<P, kernel, X, delta, args, gradU, graph, dt, Q, Xts, XtsMinus2, js,
                   gradCalls, randnCalls>>
    /\ UNCHANGED <<dvars, avars>>

NextKernel ==
    \/ ULA_call
    \/ SKROCK_params
    \/ SKROCK_stage1
    \/ SKROCK_stage
    \/ SKROCK_return

SpecKernel == InitKernel /\ [][NextKernel]_vars

(***************************************************************************)
(* Properties of one kernel call (specification SpecKernel).               *)
(***************************************************************************)
Ended == kpc \in {"returned", "raised"}
ZeroImage == VInt(0, 0)

\* C1: a ULA_kernel call that has returned evaluated the gradient oracle
\* exactly once, at the current state X, drew exactly one noise tensor Z of the
\* shape of X, and returned X - delta*grad_f_g(X) + sqrt(2*delta)*Z.
C1_ULAKernel ==
    (kernel = "ULA" /\ Ended) =>
        /\ kpc = "returned"
        /\ Len(gradCalls) = 1
        /\ gradCalls[1].arg = X
        /\ Len(randnCalls) = 1
        /\ Len(randnCalls[1]) = Len(X)
        /\ ret = VAdd(VSub(X, VScale(delta, gradCalls[1].val)),
                      VScale(sqrt(RMul(Two, delta)), randnCalls[1]))

\* a returned ULA call whose drift and noise are both non-zero
C1_Witness ==
    /\ kernel = "ULA" /\ kpc = "returned"
    /\ gradCalls[1].val # ZeroImage
    /\ randnCalls[1] # ZeroImage

\* C2: for every stage count s >= 1 a SKROCK_kernel call evaluates gradU
\* exactly s times: once in stage 1, at X + nu1*Q, and once in each stage
\* j = 2..s, at the previous stage value.
C2_GradientEvaluations ==
    (kernel = "SKROCK" /\ Admissible(args) /\ Ended) =>
        /\ Len(gradCalls) = args.nStages
        /\ gradCalls[1].arg = VAdd(X, VScale(nu1(args.nStages, args.eta), Q))

\* C3: a SKROCK_kernel call draws exactly one noise term Q, whatever the
\* stage count.
C3_OneNoiseDraw ==
    (kernel = "SKROCK" /\ Admissible(args) /\ Ended) => Len(randnCalls) = 1

\* the stage values K_0..K_s of the three-term recurrence, from the values the
\* oracle returned
K[j \in 0..3] ==
    IF j = 0 THEN X
    ELSE IF j = 1
    THEN VAdd(VSub(X, VScale(RMul(mu1(args.nStages, args.eta), dt), gradCalls[1].val)),
              VScale(kappa1(args.nStages, args.eta), Q))
    ELSE VAdd(VAdd(VScale(RNeg(RMul(mu(j, args.nStages, args.eta), dt)), gradCalls[j].val),
                   VScale(nu(j, args.nStages, args.eta), K[j - 1])),
              VScale(kappa(j, args.nStages, args.eta), K[j - 2]))

\* C4: stage j = 2..s evaluates the gradient at K_{j-1} and combines it with
\* K_{j-1}, weight nu_j, and K_{j-2}, weight kappa_j, where K_0 = X and K_1 is
\* the stage-1 value; the call returns K_s, which is K_1 when s = 1.
C4_ThreeTermRecurrence ==
    (kernel = "SKROCK" /\ Admissible(args) /\ Ended) =>
        /\ kpc = "returned"
        /\ \A j \in 2..args.nStages : gradCalls[j].arg = K[j - 1]
        /\ ret = K[args.nStages]

\* C5: with one stage SKROCK_kernel is ULA_kernel's update rule with the step
\* size delta = dt_perc*l_1/L.
C5_OneStageIsULA ==
    (kernel = "SKROCK" /\ args.nStages = 1 /\ gradU = "grad_f_g" /\ Ended) =>
        /\ kpc = "returned"
        /\ Len(randnCalls) = 1
        /\ ret = ULA_kernel(P, X, dt, randnCalls[1])

\* the multiple of gradU that stage j subtracts: mu_j*dtSKROCK
StageCoef(j) ==
    RMul(IF j = 1 THEN mu1(args.nStages, args.eta) ELSE mu(j, args.nStages, args.eta), dt)
\* stage j without its gradient term
StageFree(j) ==
    IF j = 1 THEN VAdd(X, VScale(kappa1(args.nStages, args.eta), Q))
    ELSE VAdd(VScale(nu(j, args.nStages, args.eta), gradCalls[j].arg),
              VScale(kappa(j, args.nStages, args.eta), K[j - 2]))

\* C21: every stage of SKROCK_kernel that has run, the first and each
\* j = 2..s, subtracted a positive multiple mu_j*dtSKROCK of the value gradU
\* returned, as a returned ULA_kernel call subtracted delta > 0 times it.
C21_DescentSign ==
    /\ (kernel = "SKROCK" /\ kpc \in {"loop", "returned"}) =>
           /\ Len(gradCalls) >= 1
           /\ RLt(Zero, StageCoef(Len(gradCalls)))
           /\ Xts = VSub(StageFree(Len(gradCalls)),
                         VScale(StageCoef(Len(gradCalls)), gradCalls[Len(gradCalls)].val))
    /\ (kernel = "ULA" /\ kpc = "returned") =>
           /\ RLt(Zero, delta)
           /\ ret = VSub(VAdd(X, VScale(sqrt(RMul(Two, delta)), randnCalls[1])),
                         VScale(delta, gradCalls[1].val))

\* a call that ran three stages with a non-zero gradient in the last one
C21_Witness ==
    /\ kernel = "SKROCK" /\ kpc = "returned" /\ Admissible(args)
    /\ Len(gradCalls) = 3
    /\ gradCalls[3].val # ZeroImage

\* C22: in every stage j >= 2 that has run, the coefficient kappa = 1 - nu the
\* kernel used is the documented k_j = -T_{j-2}(w0)/T_j(w0).
C22_KappaIsDocumented ==
    (kernel = "SKROCK" /\ kpc \in {"loop", "returned"}) =>
        \A j \in 2..(js - 1) :
            kappa(j, args.nStages, args.eta) = k_j(j, args.nStages, args.eta)

\* a call that ran stages 2 and 3
C22_Witness ==
    /\ kernel = "SKROCK" /\ kpc = "returned" /\ js = 4
    /\ kappa(3, args.nStages, args.eta) # kappa(2, args.nStages, args.eta)

\* C25: for admissible arguments (s >= 1, eta and dt_perc in (0,1), L > 0) the
\* step size dtSKROCK the kernel computed is strictly positive and the kernel
\* does not fail at math.sqrt(2*dtSKROCK).
C25_PositiveStep ==
    (/\ kernel = "SKROCK" /\ kpc \notin {"idle", "params"}
     /\ Admissible(args)
     /\ RLt(Zero, args.dt_perc) /\ RLt(args.dt_perc, One)
     /\ RLt(Zero, args.Lipschitz_U)) =>
        /\ RLt(Zero, dt)
        /\ kpc # "raised"

\* C29: no step of a kernel call changes the observation y (held by the
\* problem the closures capture) or the tensor X the call received: the new
\* state is built apart from them.
C29_InputsUntouched == [][P' = P /\ X' = X]_vars

\* returned calls whose result differs from the argument they still hold
C29_Witness ==
    /\ kpc = "returned" /\ ret # X
    /\ ret # P.y
    /\ kernel = "ULA" \/ Len(gradCalls) = 3

\* the prior term of the spec's reading: theta times (x - prox(x))/lambda
PriorTermTheta(x) ==
    VScale(P.theta,
           VScale(RDiv(One, lambd(P)),
                  VSub(x, chambolle_prox_TV(x, RMul(P.theta, lambd(P))))))

\* the prior term (x - prox(x))/lambda, prox of g with parameter theta*lambda
PriorTerm(x) ==
    VScale(RDiv(One, lambd(P)), VSub(x, chambolle_prox_TV(x, RMul(P.theta, lambd(P)))))

MaxIt == 7
MaxBurnin == 1
MaxSamples == 4

\* the problems of the runs: both operators, sigma = 1, theta = 2
RunProblems == {p \in Problems : p.theta = Two}

\* the draws torch.randn_like can return, as symbols
NoiseSymbols == {"z1", "z2"}

\* s, eta, dt_perc of the SK-ROCK run: the notebook's 10, 0.05, 0.99, and s = 1
RunStages == {1, 10}
RunEtas == {Rat(1, 20)}
RunPercs == {Rat(99, 100)}

\* delta = 1/L
delta_MYULA(p) == RDiv(One, L(p))

\* thinning_step = np.int64(maxit/n_samples)
ThinningStep(m, n) == m \div n

\* the state a kernel call builds from X with step size d and draw Z
ULA_term(x, d, Z) == Append(x, [delta |-> d, Z |-> Z])
SKROCK_term(x, d, Z) == Append(x, [delta |-> d, Z |-> Z])

\* the index of the iteration that produced a state; -1 for y.clone()
IterOf(x) == Len(x) - 1

\* welford(x) and welford.update(x): the samples given so far
welford(x) == <<x>>
\* a faulty update: the sample is taken in twice
update_twice(acc, x) == Append(Append(acc, x), x)
update(acc, x) == Append(acc, x)
\* welford.get_mean(): a function of the samples given so far
get_mean(acc) == [mean_of |-> acc]

\* the tensors and values computed from a state
fft2_abs(x) == [fn |-> "fft2.abs", of |-> x]
\* a faulty fft2_real: of the state before the transition
fft2_real_stale(x) == [fn |-> "real.fft2", of |-> SubSeq(x, 1, Len(x) - 1)]
fft2_real(x) == [fn |-> "real.fft2", of |-> x]
\* a faulty logPi: evaluated at the state before the transition
logPi_stale(x) == [fn |-> "logPi", of |-> SubSeq(x, 1, Len(x) - 1)]
\* logPi = lambda z: (- f(z,A) - g_fun_theta(z)), g_fun_theta the unsmoothed
\* theta*tv(Grad_Image(z))
logPi(x) == [fn |-> "logPi", of |-> x]
NRMSE(m) == [fn |-> "NRMSE", of |-> m]
PSNR(m) == [fn |-> "PSNR", of |-> m]
SSIM(m) == [fn |-> "SSIM", of |-> m]

\* a faulty start of the recording: half way through the burn-in
AtBurnin_half(i, b) == i = b \div 2

\* if i_x == burnin:
AtBurnin(i, b) == i = b

\* elif i_x > burnin:
PastBurnin(i, b) == i > b

\* a faulty thinning test: always true
ThinningHit_always(c, t) == TRUE
\* a faulty thinning test: never true
ThinningHit_never(c, t) == FALSE
\* a faulty thinning test: one iteration late
ThinningHit_late(c, t) == c = t

\* if count == thinning_step-1:
ThinningHit(c, t) == c = t - 1

\* range(maxit) and range(maxit+burnin)
Range_MYULA(m, b) == m
\* a faulty SK-ROCK range: the burn-in counted twice
Range_SKROCK_twice(m, b) == m + b + b
\* a faulty SK-ROCK range: the burn-in inside maxit
Range_SKROCK_maxit(m, b) == m
Range_SKROCK(m, b) == m + b

KernelIdle ==
    /\ gradU = "grad_f_g" /\ graph = {} /\ kpc = "idle"
    /\ dt = None /\ Q = None /\ Xts = None /\ XtsMinus2 = None /\ js = 0
    /\ gradCalls = <<>> /\ randnCalls = <<>> /\ ret = None

\* the cells before the loop: the problem, the step size, the configuration,
\* X = y.clone() and the empty trace and series
Init ==
    /\ P \in RunProblems
    /\ \/ /\ kernel = "ULA"
          /\ delta = delta_MYULA(P)
          /\ args = NoArgs
       \/ /\ kernel = "SKROCK"
          /\ delta = None
          /\ args \in {[Lipschitz_U |-> L(P), nStages |-> n, eta |-> e, dt_perc |-> a] :
                          n \in RunStages, e \in RunEtas, a \in RunPercs}
    /\ KernelIdle
    /\ WelfordIdle
    /\ maxit \in 1..MaxIt
    /\ burnin \in 0..MaxBurnin
    /\ n_samples \in 1..MaxSamples
    /\ thinning_step = ThinningStep(maxit, n_samples)
    /\ X = <<>>
    /\ i_x = 0
    /\ count = Unset
    /\ MC_X = <<>>
    /\ post_meanvar = NoAccumulator /\ absfouriercoeff = NoAccumulator
    /\ var_C = NoAccumulator
    /\ nrmse_values = <<>> /\ psnr_values = <<>> /\ ssim_values = <<>>
    /\ log_pi_trace = <<>>
    /\ pc = "loop"

KernelFrame ==
    UNCHANGED <<P, kernel, delta, args, gradU, graph, kpc, Q, Xts, XtsMinus2, js,
                gradCalls, randnCalls, ret>>
ConfigFrame == UNCHANGED <<maxit, burnin, n_samples, thinning_step, avars>>

\* the MYULA loop body after the kernel call has returned the state Xn
MYULA_body(Xn) ==
    /\ X' = Xn
    /\ IF AtBurnin(i_x, burnin)
       THEN /\ post_meanvar' = welford(Xn)
            /\ absfouriercoeff' = welford(fft2_abs(Xn))
            /\ count' = 0
            /\ UNCHANGED <<nrmse_values, psnr_values, ssim_values, log_pi_trace, MC_X>>
       ELSE IF PastBurnin(i_x, burnin)
       THEN /\ post_meanvar' = update(post_meanvar, Xn)
            /\ absfouriercoeff' = update(absfouriercoeff, fft2_abs(Xn))
            /\ nrmse_values' = Append(nrmse_values, NRMSE(get_mean(post_meanvar')))
            /\ psnr_values' = Append(psnr_values, PSNR(get_mean(post_meanvar')))
            /\ ssim_values' = Append(ssim_values, SSIM(get_mean(post_meanvar')))
            /\ log_pi_trace' = Append(log_pi_trace, logPi(Xn))
            /\ IF ThinningHit(count, thinning_step)
               THEN /\ MC_X' = Append(MC_X, Xn)
                    /\ count' = 0
               ELSE /\ count' = count + 1
                    /\ UNCHANGED MC_X
       ELSE UNCHANGED <<post_meanvar, absfouriercoeff, count, nrmse_values, psnr_values,
                        ssim_values, log_pi_trace, MC_X>>
    /\ i_x' = i_x + 1
    /\ UNCHANGED <<var_C, dt, pc>>
    /\ KernelFrame /\ ConfigFrame

\* one iteration of the MYULA loop
MYULA_iteration ==
    /\ kernel = "ULA" /\ pc = "loop"
    /\ i_x < Range_MYULA(maxit, burnin)
    /\ \E Z \in NoiseSymbols : MYULA_body(ULA_term(X, delta, Z))

\* the cells after the MYULA loop: post_meanvar.get_mean(), np.stack(MC_X)
MYULA_results ==
    /\ kernel = "ULA" /\ pc = "loop"
    /\ i_x >= Range_MYULA(maxit, burnin)
    /\ pc' = IF post_meanvar = NoAccumulator \/ MC_X = <<>> THEN "raised" ELSE "done"
    /\ UNCHANGED <<X, dt, i_x, count, MC_X, post_meanvar, absfouriercoeff, var_C,
                   nrmse_values, psnr_values, ssim_values, log_pi_trace>>
    /\ KernelFrame /\ ConfigFrame

\* the SK-ROCK loop body after the kernel call has returned the state Xn
SKROCK_body(Xn) ==
    /\ X' = Xn
    /\ IF AtBurnin(i_x, burnin)
       THEN /\ post_meanvar' = welford(Xn)
            /\ var_C' = welford(fft2_real(Xn))
            /\ absfouriercoeff' = welford(fft2_abs(Xn))
            /\ count' = 0
            /\ UNCHANGED <<nrmse_values, psnr_values, ssim_values, log_pi_trace,
                           MC_X>>
       ELSE IF PastBurnin(i_x, burnin)
       THEN /\ post_meanvar' = update(post_meanvar, Xn)
            /\ absfouriercoeff' = update(absfouriercoeff, fft2_abs(Xn))
            /\ nrmse_values' = Append(nrmse_values, NRMSE(get_mean(post_meanvar')))
            /\ psnr_values' = Append(psnr_values, PSNR(get_mean(post_meanvar')))
            /\ ssim_values' = Append(ssim_values, SSIM(get_mean(post_meanvar')))
            /\ log_pi_trace' = Append(log_pi_trace, logPi(Xn))
            /\ IF ThinningHit(count, thinning_step)
               THEN /\ var_C' = update(var_C, fft2_real(Xn))
                    /\ MC_X' = Append(MC_X, Xn)
                    /\ count' = 0
               ELSE /\ count' = count + 1
                    /\ UNCHANGED <<var_C, MC_X>>
       ELSE UNCHANGED <<post_meanvar, absfouriercoeff, var_C, count, nrmse_values,
                        psnr_values, ssim_values, log_pi_trace, MC_X>>
    /\ i_x' = i_x + 1
    /\ UNCHANGED pc

\* one iteration of the SK-ROCK loop
SKROCK_iteration ==
    /\ kernel = "SKROCK" /\ pc = "loop"
    /\ i_x < Range_SKROCK(maxit, burnin)
    /\ dt' = dtSKROCK(args.dt_perc, args.nStages, args.eta, args.Lipschitz_U)
    /\ IF RLt(RMul(Two, dt'), Zero)
       THEN \* math.sqrt raises inside SKROCK_kernel
            /\ pc' = "raised"
            /\ UNCHANGED <<X, i_x, count, MC_X, post_meanvar, absfouriercoeff, var_C,
                           nrmse_values, psnr_values, ssim_values, log_pi_trace>>
       ELSE \E Z \in NoiseSymbols : SKROCK_body(SKROCK_term(X, dt', Z))
    /\ KernelFrame /\ ConfigFrame

\* after the SK-ROCK loop: MC_X = np.stack(MC_X), var_mat = var_C.get_var()
SKROCK_results ==
    /\ kernel = "SKROCK" /\ pc = "loop"
    /\ i_x >= Range_SKROCK(maxit, burnin)
    /\ pc' = IF MC_X = <<>> \/ var_C = NoAccumulator THEN "raised" ELSE "done"
    /\ UNCHANGED <<X, dt, i_x, count, MC_X, post_meanvar, absfouriercoeff, var_C,
                   nrmse_values, psnr_values, ssim_values, log_pi_trace>>
    /\ KernelFrame /\ ConfigFrame

Next ==
    \/ MYULA_iteration
    \/ MYULA_results
    \/ SKROCK_iteration
    \/ SKROCK_results

Spec == Init /\ [][Next]_vars

(***************************************************************************)
(* Properties of the sampling runs (specification Spec).                   *)
(***************************************************************************)
\* L = L_y + 1/lambda and the stiffness ratio l_s
Lipschitz == RAdd(L_y(P), RDiv(One, lambd(P)))
StiffnessRatio ==
    LET h == RSub(RInt(args.nStages), Rat(1, 2))
    IN  RSub(RMul(RMul(h, h), RSub(Two, RMul(Rat(4, 3), args.eta))), Rat(3, 2))

\* C7: every transition of a run uses one and the same step size, the value
\* derived from L = L_y + 1/lambda before the loop, and that value is within
\* the stability bound: delta = 1/L < 2/L in the MYULA run, and
\* delta = dt_perc*l_s/L <= l_s/L in the SK-ROCK run.
C7_StepSize ==
    Len(X) > 0 =>
        /\ \A k \in 1..Len(X) : X[k].delta = X[1].delta
        /\ kernel = "ULA" =>
              /\ X[1].delta = delta
              /\ X[1].delta = RDiv(One, Lipschitz)
              /\ RLt(X[1].delta, RDiv(Two, Lipschitz))
        /\ kernel = "SKROCK" =>
              /\ X[1].delta = RDiv(RMul(args.dt_perc, StiffnessRatio), Lipschitz)
              /\ RLe(X[1].delta, RDiv(StiffnessRatio, Lipschitz))

\* an SK-ROCK run that has made several transitions
C7_Witness == kernel = "SKROCK" /\ Len(X) >= 3 /\ pc = "done"

\* the chain states that have entered an accumulator, the trace or a series
AccumulatedStates ==
    {post_meanvar[k] : k \in 1..Len(post_meanvar)}
    \cup {absfouriercoeff[k].of : k \in 1..Len(absfouriercoeff)}
    \cup {var_C[k].of : k \in 1..Len(var_C)}
TraceStates == {MC_X[k] : k \in 1..Len(MC_X)}
SeriesStates ==
    {log_pi_trace[k].of : k \in 1..Len(log_pi_trace)}
    \cup UNION {{nrmse_values[k].of.mean_of[j] : j \in 1..Len(nrmse_values[k].of.mean_of)} :
                   k \in 1..Len(nrmse_values)}
    \cup UNION {{psnr_values[k].of.mean_of[j] : j \in 1..Len(psnr_values[k].of.mean_of)} :
                   k \in 1..Len(psnr_values)}
    \cup UNION {{ssim_values[k].of.mean_of[j] : j \in 1..Len(ssim_values[k].of.mean_of)} :
                   k \in 1..Len(ssim_values)}

\* C8: no state produced by an iteration of index below burnin enters an
\* accumulator, the trace or a metric or log-posterior series; the first
\* state that enters a statistic is the one produced at index burnin, which
\* the accumulators get as soon as that iteration is over.
C8_BurninDiscarded ==
    /\ \A x \in AccumulatedStates \cup TraceStates \cup SeriesStates : IterOf(x) >= burnin
    /\ post_meanvar # NoAccumulator => IterOf(post_meanvar[1]) = burnin
    /\ absfouriercoeff # NoAccumulator => IterOf(absfouriercoeff[1].of) = burnin
    /\ i_x > burnin => post_meanvar # NoAccumulator /\ absfouriercoeff # NoAccumulator

\* a finished run with a burn-in that has filled the trace and the series
C8_Witness ==
    /\ pc = "done" /\ burnin >= 1
    /\ Len(MC_X) >= 1 /\ Len(nrmse_values) >= 2 /\ Len(log_pi_trace) >= 2

\* C9: with thinning_step >= 1 the trace holds exactly the states produced at
\* the iteration indices burnin + k*thinning_step, k = 1, 2, ..., that the run
\* has completed, in this order.
C9_ThinnedTrace ==
    thinning_step >= 1 =>
        /\ \A k \in 1..Len(MC_X) :
              /\ IterOf(MC_X[k]) = burnin + k * thinning_step
              /\ MC_X[k] = SubSeq(X, 1, Len(MC_X[k]))
        /\ Len(MC_X) = IF i_x - 1 > burnin
                       THEN (i_x - 1 - burnin) \div thinning_step
                       ELSE 0

\* a trace of two states that are more than one iteration apart
C9_Witness == thinning_step >= 2 /\ Len(MC_X) >= 2 /\ burnin >= 1

\* C10: at the end of a MYULA run the trace holds n_samples states, give or
\* take one.
C10_TraceLengthMYULA ==
    (kernel = "ULA" /\ pc = "done" /\ thinning_step >= 1 /\ burnin < maxit) =>
        Len(MC_X) \in (n_samples - 1)..(n_samples + 1)

\* C11 as stated: at the end of an SK-ROCK run the trace holds n_samples
\* states, give or take one.
C11_TraceLengthSKROCK ==
    (kernel = "SKROCK" /\ pc = "done" /\ thinning_step >= 1) =>
        Len(MC_X) \in (n_samples - 1)..(n_samples + 1)

\* C11 amended: at the end of an SK-ROCK run the trace holds
\* floor((maxit - 1)/thinning_step) states, whatever the burn-in; that is
\* n_samples - 1 when n_samples divides maxit.
C11_TraceLengthDivides ==
    (kernel = "SKROCK" /\ pc = "done") =>
        /\ thinning_step >= 1
        /\ Len(MC_X) = (maxit - 1) \div thinning_step
        /\ n_samples * thinning_step = maxit => Len(MC_X) = n_samples - 1

\* a finished SK-ROCK run with a burn-in whose n_samples divides maxit
C11_Witness ==
    /\ kernel = "SKROCK" /\ pc = "done" /\ burnin >= 1
    /\ n_samples >= 3 /\ n_samples * thinning_step = maxit /\ thinning_step >= 2

\* the runs under the scheduling of a notebook cell: a loop that can make its
\* next iteration makes it
FairSpec == Spec /\ WF_vars(Next)

MaxFed == 4

Samples == {RInt(0), RInt(1), RInt(3)}

\* the constructor: the first sample
welford_new(x) == [n |-> 1, mean |-> x, M2 |-> Zero]

\* a faulty update: the new sample always weighs one half in the mean
welford_update_half(a, x) ==
    LET d == RSub(x, a.mean)
        m == RAdd(a.mean, RDiv(d, Two))
    IN  [n |-> a.n + 1, mean |-> m, M2 |-> RAdd(a.M2, RMul(d, RSub(x, m)))]

\* a faulty update: the squared deviation taken from the old mean twice
welford_update_old(a, x) ==
    LET d == RSub(x, a.mean)
    IN  [n |-> a.n + 1, mean |-> RAdd(a.mean, RDiv(d, RInt(a.n + 1))),
         M2 |-> RAdd(a.M2, RMul(d, d))]

\* update: n, the running mean and M2 from the new sample alone
welford_update(a, x) ==
    LET d == RSub(x, a.mean)
        m == RAdd(a.mean, RDiv(d, RInt(a.n + 1)))
    IN  [n |-> a.n + 1, mean |-> m, M2 |-> RAdd(a.M2, RMul(d, RSub(x, m)))]

welford_get_mean(a) == a.mean
\* the variance, M2/n, and the unbiased variance, M2/(n-1)
welford_get_var(a) == RDiv(a.M2, RInt(a.n))
welford_get_var_unbiased(a) == RDiv(a.M2, RInt(a.n - 1))

InitWelford ==
    /\ P = None /\ kernel = "welford" /\ X = None /\ delta = None /\ args = NoArgs
    /\ gradU = "grad_f_g" /\ kpc = "idle"
    /\ KernelLocalsInit
    /\ RunIdle
    /\ WelfordIdle

\* w = welford(x)
welford_construct ==
    /\ kernel = "welford"
    /\ fed = <<>>
    /\ \E x \in Samples :
        /\ w' = welford_new(x)
        /\ fed' = <<x>>
    /\ UNCHANGED <<kvars, dvars>>

\* w.update(x)
welford_feed ==
    /\ kernel = "welford"
    /\ fed # <<>>
    /\ Len(fed) < MaxFed
    /\ \E x \in Samples :
        /\ w' = welford_update(w, x)
        /\ fed' = Append(fed, x)
    /\ UNCHANGED <<kvars, dvars>>

NextWelford ==
    \/ welford_construct
    \/ welford_feed

SpecWelford == InitWelford /\ [][NextWelford]_vars

\* the sum, the mean and the sum of squared deviations of a sequence, directly
SumOf[q \in Seq(Rationals)] == IF q = <<>> THEN Zero ELSE RAdd(q[1], SumOf[Tail(q)])
BatchMean(q) == RDiv(SumOf[q], RInt(Len(q)))
BatchM2(q) ==
    LET m == BatchMean(q)
    IN  SumOf[[i \in 1..Len(q) |-> RMul(RSub(q[i], m), RSub(q[i], m))]]

\* C13: after n samples, the first through the constructor and the rest
\* through update, get_mean() is their arithmetic mean and get_var() their
\* variance, M2/n, or M2/(n-1) for the unbiased one; the accumulator holds n,
\* the mean and M2 and no sample.
C13_StreamingEqualsBatch ==
    fed # <<>> =>
        /\ DOMAIN w = {"n", "mean", "M2"}
        /\ w.n = Len(fed)
        /\ welford_get_mean(w) = BatchMean(fed)
        /\ welford_get_var(w) = RDiv(BatchM2(fed), RInt(Len(fed)))
        /\ Len(fed) >= 2 =>
              welford_get_var_unbiased(w) = RDiv(BatchM2(fed), RInt(Len(fed) - 1))

\* an accumulator after three samples that are not all equal
C13_Witness == Len(fed) >= 3 /\ w.M2 # Zero /\ w.mean[2] # 1

\* the accumulator after a non-empty sequence of samples was given in order
FeedAll[q \in Seq(Rationals)] ==
    IF Len(q) = 1 THEN welford_new(q[1])
    ELSE welford_update(FeedAll[SubSeq(q, 1, Len(q) - 1)], q[Len(q)])

\* the samples given, in the order p
Reordered(p) == [i \in 1..Len(fed) |-> fed[p[i]]]

\* C14: the count, get_mean() and get_var() of an accumulator do not depend
\* on the order in which its samples were given: every permutation of the
\* samples given yields the same three values.
C14_OrderIndependent ==
    fed # <<>> =>
        \A p \in Permutations(1..Len(fed)) :
            /\ FeedAll[Reordered(p)].n = w.n
            /\ welford_get_mean(FeedAll[Reordered(p)]) = welford_get_mean(w)
            /\ welford_get_var(FeedAll[Reordered(p)]) = welford_get_var(w)

\* three samples given of which the first and the last differ
C14_Witness == Len(fed) >= 3 /\ fed[1] # fed[Len(fed)] /\ fed[1] # fed[2]


Prefix(x, n) == SubSeq(x, 1, n)
\* the iterations after the burn-in iteration so far
Recorded == IF i_x > burnin THEN i_x - burnin - 1 ELSE 0
\* the trace entries so far
Kept == IF thinning_step >= 1 THEN Recorded \div thinning_step ELSE 0

C26_ThinningCounter ==
    /\ []((thinning_step >= 1 /\ i_x > burnin) => count \in 0..(thinning_step - 1))
    /\ [][(thinning_step >= 1 /\ i_x > burnin /\ i_x' = i_x + 1) =>
              (count' = 0 <=> MC_X' # MC_X)]_vars

\* the counter at its largest value after the trace got a state
C26_Witness ==
    /\ thinning_step >= 2 /\ i_x > burnin
    /\ count = thinning_step - 1
    /\ MC_X # <<>>

\* the iterations of a run
TotalIterations ==
    IF kernel = "ULA" THEN Range_MYULA(maxit, burnin) ELSE Range_SKROCK(maxit, burnin)

\* C27 as stated: with thinning_step >= 1 and burnin below the number of
\* iterations the trace never holds more than n_samples states.
C27_TraceWithinTarget ==
    (thinning_step >= 1 /\ burnin < TotalIterations) => Len(MC_X) <= n_samples

\* C27: with thinning_step >= 1 and burnin below the number of iterations the
\* trace never holds more than floor((iterations - burnin - 1)/thinning_step)
\* states; that is at most n_samples when n_samples divides maxit, and below
\* 2*n_samples otherwise.
C27_TraceBound ==
    (thinning_step >= 1 /\ burnin < TotalIterations) =>
        /\ Len(MC_X) <= (TotalIterations - burnin - 1) \div thinning_step
        /\ n_samples * thinning_step = maxit => Len(MC_X) <= n_samples
        /\ Len(MC_X) < 2 * n_samples

\* a completed run whose trace is longer than n_samples
C27_Witness ==
    /\ pc = "done" /\ thinning_step >= 1
    /\ n_samples * thinning_step # maxit
    /\ Len(MC_X) > n_samples

\* C28: in the SK-ROCK driver var_C is created in the burn-in iteration from
\* that iteration's state and afterwards receives exactly the states appended
\* to MC_X, in the same order: it has received Len(MC_X) + 1 samples, and its
\* first sample is not in the trace.
C28_VarCFollowsTrace ==
    kernel = "SKROCK" =>
        /\ var_C # NoAccumulator <=> i_x > burnin
        /\ var_C # NoAccumulator =>
               /\ Len(var_C) = Len(MC_X) + 1
               /\ var_C[1] = [fn |-> "real.fft2", of |-> Prefix(X, burnin + 1)]
               /\ \A k \in 1..Len(MC_X) :
                      var_C[k + 1] = [fn |-> "real.fft2", of |-> MC_X[k]]
               /\ var_C[1].of \notin TraceStates

\* an SK-ROCK run with burn-in whose var_C received two trace states
C28_Witness ==
    /\ kernel = "SKROCK" /\ burnin >= 1
    /\ Len(var_C) >= 3 /\ Len(MC_X) >= 2
    /\ thinning_step >= 2

\* ---------------------------------------------------------------------------
\* Configuration errors
\* ---------------------------------------------------------------------------

\* C16: a thinning step of zero (more trace samples asked for than iterations)
\* is rejected before any kernel transition: no run with thinning_step = 0
\* ever executes an iteration.
C16_ZeroThinningRejected == thinning_step = 0 => i_x = 0 /\ X = <<>>

\* C18: a stage count below one or an eta outside (0,1) given to the SK-ROCK
\* kernel is rejected before any transition: the kernel draws no noise, calls
\* no gradient and returns no state for such arguments.
C18_InadmissibleRejected ==
    (kernel = "SKROCK" /\ kpc # "idle" /\ ~Admissible(args)) =>
        /\ kpc \in {"params", "raised"}
        /\ randnCalls = <<>> /\ gradCalls = <<>> /\ ret = None

\* C17: a MYULA run whose burn-in is at least its total number of iterations
\* is rejected before any transition, and the MYULA loop never runs to
\* completion with its accumulators uninitialised.
C17_BurninRejected ==
    kernel = "ULA" =>
        /\ burnin >= maxit => i_x = 0 /\ X = <<>>
        /\ i_x >= Range_MYULA(maxit, burnin) => post_meanvar # NoAccumulator

\* ---------------------------------------------------------------------------
\* Runs in floating point: a transition whose arithmetic overflows
\* ---------------------------------------------------------------------------

FloatMaxIt == 3
FloatMaxSamples == 2

\* the value of a state whose float arithmetic overflowed (inf or nan): it does
\* not depend on the draw
NonFinite == "nan"

\* torch.isfinite(x).all(): every later state computed from a non-finite one is
\* non-finite too
IsFinite(x) == \A k \in 1..Len(x) : x[k].Z # NonFinite

InitFloat ==
    /\ Init
    /\ maxit <= FloatMaxIt
    /\ n_samples <= FloatMaxSamples

\* one iteration of the MYULA loop in which ULA_kernel returns a non-finite state
MYULA_overflow ==
    /\ kernel = "ULA" /\ pc = "loop"
    /\ i_x < Range_MYULA(maxit, burnin)
    /\ MYULA_body(ULA_term(X, delta, NonFinite))

\* one iteration of the SK-ROCK loop in which SKROCK_kernel returns a non-finite
\* state
SKROCK_overflow ==
    /\ kernel = "SKROCK" /\ pc = "loop"
    /\ i_x < Range_SKROCK(maxit, burnin)
    /\ dt' = dtSKROCK(args.dt_perc, args.nStages, args.eta, args.Lipschitz_U)
    /\ ~RLt(RMul(Two, dt'), Zero)
    /\ SKROCK_body(SKROCK_term(X, dt', NonFinite))
    /\ KernelFrame /\ ConfigFrame

\* what a run has built so far
RunState ==
    <<X, i_x, count, MC_X, post_meanvar, absfouriercoeff, var_C, nrmse_values,
      psnr_values, ssim_values, log_pi_trace>>

\* a faulty failure: the state is overwritten before the exception leaves the
\* kernel
MYULA_failure_partial ==
    /\ kernel = "ULA" /\ pc = "loop"
    /\ i_x < Range_MYULA(maxit, burnin)
    /\ pc' = "raised"
    /\ X' = ULA_term(X, delta, NonFinite)
    /\ UNCHANGED <<dt, i_x, count, MC_X, post_meanvar, absfouriercoeff, var_C,
                   nrmse_values, psnr_values, ssim_values, log_pi_trace>>
    /\ KernelFrame /\ ConfigFrame

\* one iteration of the MYULA loop in which grad_f_g (gradf or the prox inside
\* gradg) raises: the exception leaves ULA_kernel and the loop, X is not
\* assigned
MYULA_failure ==
    /\ kernel = "ULA" /\ pc = "loop"
    /\ i_x < Range_MYULA(maxit, burnin)
    /\ pc' = "raised"
    /\ UNCHANGED <<dt, RunState>>
    /\ KernelFrame /\ ConfigFrame

\* one iteration of the SK-ROCK loop in which gradU raises in some stage
SKROCK_failure ==
    /\ kernel = "SKROCK" /\ pc = "loop"
    /\ i_x < Range_SKROCK(maxit, burnin)
    /\ dt' = dtSKROCK(args.dt_perc, args.nStages, args.eta, args.Lipschitz_U)
    /\ ~RLt(RMul(Two, dt'), Zero)
    /\ pc' = "raised"
    /\ UNCHANGED RunState
    /\ KernelFrame /\ ConfigFrame

NextFloat ==
    \/ MYULA_iteration
    \/ MYULA_overflow
    \/ MYULA_failure
    \/ MYULA_results
    \/ SKROCK_iteration
    \/ SKROCK_overflow
    \/ SKROCK_failure
    \/ SKROCK_results

SpecFloat == InitFloat /\ [][NextFloat]_vars

\* C23: a step that ends a run with an exception leaves the chain state, the
\* accumulators, the trace and the series as the last completed iteration left
\* them, and no step follows it: nothing is retried.
C23_FailureIsFatal ==
    [][pc # "raised" /\ (pc' = "raised" => UNCHANGED RunState)]_vars

\* a MYULA run stopped by a failed evaluation in the middle of its loop, after
\* the recording started
C23_Witness ==
    /\ kernel = "ULA" /\ pc = "raised"
    /\ i_x >= 2 /\ i_x < Range_MYULA(maxit, burnin)
    /\ MC_X # <<>>

\* C15: once the state is non-finite after a transition the run is halted, and
\* no non-finite state is ever given to an accumulator, the trace or a metric
\* series.
C15_HaltsOnNonFinite ==
    /\ ~IsFinite(X) => pc = "raised"
    /\ \A x \in AccumulatedStates \cup TraceStates \cup SeriesStates : IsFinite(x)

\* ---------------------------------------------------------------------------
\* ULA on a strictly convex quadratic target: theta = 0, A the identity, so
\* that grad_f_g(x) = (x - y)/sigma**2 and the target is minimal at y
\* ---------------------------------------------------------------------------

Horizon == 6
\* the largest magnitude of the number format: a larger one overflows to inf
FloatMax == 40

QuadraticProblems ==
    {[op |-> o, y |-> VInt(1, 0), sigma |-> One, theta |-> Zero] :
        o \in {q \in Operators : q.M = <<VInt(1, 0), VInt(0, 1)>>}}

\* the step sizes as multiples of 1/L: below, at and above 2/L
StepFactors == {Rat(1, 2), Two, Rat(9, 2)}

\* inf: a state with an overflowed pixel (it stays non-finite)
Overflowed == <<(<<1, 0>>), (<<1, 0>>)>>
IsFiniteImage(x) == x[1][2] # 0 /\ x[2][2] # 0

RAbs(q) == IF q[1] < 0 THEN RNeg(q) ELSE q
RMax(p, q) == IF RLt(p, q) THEN q ELSE p

\* the result of a float computation whose exact value is x
Float(x) ==
    IF RLt(RInt(FloatMax), RAbs(x[1])) \/ RLt(RInt(FloatMax), RAbs(x[2]))
    THEN Overflowed ELSE x

InitQuadratic ==
    /\ P \in QuadraticProblems
    /\ kernel = "ULA"
    /\ X \in Images
    /\ delta \in {RDiv(c, L_y(P)) : c \in StepFactors}
    /\ args = NoArgs /\ gradU = "grad_f_g" /\ kpc = "idle"
    /\ KernelLocalsInit
    /\ maxit = Horizon /\ burnin = 0 /\ n_samples = 1 /\ thinning_step = Horizon
    /\ i_x = 0 /\ count = Unset /\ MC_X = <<>>
    /\ post_meanvar = NoAccumulator /\ absfouriercoeff = NoAccumulator
    /\ var_C = NoAccumulator
    /\ nrmse_values = <<>> /\ psnr_values = <<>> /\ ssim_values = <<>>
    /\ log_pi_trace = <<>>
    /\ pc = "loop"
    /\ WelfordIdle

\* X = ULA_kernel(X, delta), Horizon times
ULA_step ==
    /\ kernel = "ULA" /\ pc = "loop"
    /\ i_x < Horizon
    /\ IF IsFiniteImage(X)
       THEN \E Z \in Noise : X' = Float(ULA_kernel(P, X, delta, Z))
       ELSE X' = X
    /\ i_x' = i_x + 1
    /\ UNCHANGED <<P, kernel, delta, args, gradU, graph, kpc, dt, Q, Xts,
                   XtsMinus2, js, gradCalls, randnCalls, ret>>
    /\ UNCHANGED <<maxit, burnin, n_samples, thinning_step, count, MC_X, post_meanvar,
                   absfouriercoeff, var_C, nrmse_values, psnr_values, ssim_values,
                   log_pi_trace, pc, avars>>

NextQuadratic == ULA_step

SpecQuadratic == InitQuadratic /\ [][NextQuadratic]_vars

\* delta*L
StepFactor == RMul(delta, L_y(P))
\* the largest pixel of X - y, y the minimiser
Dist(x) == RMax(RAbs(RSub(x[1], P.y[1])), RAbs(RSub(x[2], P.y[2])))
\* the largest |X - y| over Images, and the largest pixel of a draw
Dist0 == One
NoiseMax == Two
\* sqrt(2*delta)*|Z|
Kick == RMul(sqrt(RMul(Two, delta)), NoiseMax)

====
